---- MODULE Spec2Model ----
(***************************************************************************)
(* Model of the Janus MQTT event handler (events/janus_mqttevh.c).         *)
(*                                                                         *)
(* Threads: the host's lifecycle thread (init / destroy), the host's      *)
(* event thread (incoming_event), the handler thread started by init      *)
(* (janus_mqttevh_handler) and the Paho transport thread that runs the    *)
(* connect / disconnect / publish callbacks.                               *)
(*                                                                         *)
(* Every init() that gets as far as allocating a context opens a          *)
(* generation g: context g, event queue g and handler thread g.           *)
(***************************************************************************)
EXTENDS Integers, Sequences, FiniteSets, TLC

(* ---------------------------------------------------------------- bounds *)

\* init() calls that allocate a context
MaxInit == 2
\* times the host loads the handler when it loads it only while it is not
\* initialized
MaxLoad == 1
\* incoming_event() calls made by the host
MaxSubmit == 2
\* largest failure code the transport hands to a callback or returns
MaxCode == 6
\* explicit reconnect requests
MaxReconnect == 1

(* ------------------------------------------------------ program constants *)

MQTTASYNC_SUCCESS == 0
DEFAULT_ADDEVENT == 1
\* char topicbuf[512]
TopicBufLen == 512
DEFAULT_BASETOPIC == "/janus/events"
JANUS_MQTTEVH_PACKAGE == "janus.eventhandler.mqttevh"

Gens == 1..MaxInit
NULL == 0

\* the address of the static exit_event, compared by identity
exit_event ==
  [id |-> 0, type |-> 0, ok |-> TRUE, eventtype |-> "", event |-> "exit_event",
   eventhandler |-> ""]

RECURSIVE Rep(_, _)
Rep(s, n) ==
  IF n = 0 THEN ""
  ELSE IF n % 2 = 0 THEN LET h == Rep(s, n \div 2) IN h \o h
  ELSE s \o Rep(s, n - 1)

\* a configured base topic long enough that "/status" or "/handle" no
\* longer fits the topic buffer
LongTopic == "/" \o Rep("t", TopicBufLen - 8)

BaseTopics == {DEFAULT_BASETOPIC, LongTopic}

\* return codes of MQTTAsync_connect other than MQTTASYNC_SUCCESS
SyncFailCodes == {-1} \cup (1..MaxCode)
\* return codes of the other transport calls
CallCodes == {MQTTASYNC_SUCCESS, -1}
\* response ? response->code : 0 in the connect-failure callback
CallbackCodes == 0..MaxCode

\* the JSON documents the host submits: an event type, and whether
\* json_dumps can serialize the document
Documents == {[type |-> 4, ok |-> TRUE], [type |-> 4, ok |-> FALSE],
              [type |-> 99, ok |-> TRUE]}

(* ------------------------------------------------------------ pure helpers *)

\* events.h: event_type_to_label(), NULL for a type it does not know
event_type_to_label(type) ==
  IF type = 4 THEN "handle" ELSE ""

\* events.h: event_type_to_name(), NULL for a type it does not know
event_type_to_name(type) ==
  IF type = 4 THEN "Handle" ELSE ""

\* what printf's %s makes of a label (glibc prints a null pointer as "(null)")
FormatLabel(label) ==
  IF label = "" THEN "(null)" ELSE label

\* snprintf(topicbuf, sizeof(topicbuf), "%s/%s", base, leaf)
Snprintf(base, leaf) ==
  LET full == base \o "/" \o leaf
  IN  IF Len(full) > TopicBufLen - 1
        THEN SubSeq(full, 1, TopicBufLen - 1)
        ELSE full

\* the switch that turns a connect return code into a reason
ConnectError(rc) ==
  CASE rc = 1 -> "Connection refused - protocol version"
    [] rc = 2 -> "Connection refused - identifier rejected"
    [] rc = 3 -> "Connection refused - server unavailable"
    [] rc = 4 -> "Connection refused - bad credentials"
    [] rc = 5 -> "Connection refused - not authroized"
    [] OTHER  -> "Connection refused - unknown error"

NoLog == [site |-> "", rc |-> 0, reason |-> ""]

\* json_dumps(message, json_format_): the payload, or NULL when the document
\* cannot be dumped
json_dumps(message) ==
  IF message.ok
    THEN [null |-> FALSE, type |-> message.type, eventtype |-> message.eventtype,
          event |-> message.event, eventhandler |-> message.eventhandler]
    ELSE [null |-> TRUE, type |-> 0, eventtype |-> "", event |-> "",
          eventhandler |-> ""]

\* json_object() with "event": "connected" and "eventhandler": the package
StatusInfo ==
  [id |-> 0, type |-> 0, ok |-> TRUE, eventtype |-> "", event |-> "connected",
   eventhandler |-> JANUS_MQTTEVH_PACKAGE]

\* the event a host document becomes when incoming_event() is called with it
HostEvent(id, d) ==
  [id |-> id, type |-> d.type, ok |-> d.ok, eventtype |-> "", event |-> "",
   eventhandler |-> ""]

(* ------------------------------------------------------------------ state *)

VARIABLES
  initialized,      \* static volatile gint initialized
  stopping,         \* static volatile gint stopping
  context_,         \* static janus_mqttevh_context *context_
  events,           \* static GAsyncQueue *events
  handler_thread,   \* static GThread *handler_thread
  ctxmem,           \* per context: "none", "live" or "freed"
  ctxtopic,         \* ctx->publish.topic
  ctxaddevent,      \* ctx->addevent
  conn,             \* the session as the callbacks saw it: "disconnected", "connected"
  pending,          \* the connect / disconnect requests the transport has in flight
  npub,             \* publishes in flight, awaiting their callback
  qmem,             \* per queue: "none", "live" or "freed"
  queue,            \* per queue: its items, head first
  life_pc,          \* where the lifecycle thread is inside init() / destroy()
  init_ctx,         \* init()'s local ctx
  sub_pc,           \* where the event thread is inside incoming_event()
  sub_ev,           \* incoming_event()'s argument
  h_pc,             \* per handler thread: its position in janus_mqttevh_handler
  h_q,              \* per handler thread: the queue its pop was called on
  ninit,            \* contexts allocated so far
  nsub,             \* incoming_event() calls so far
  nreconnect,       \* reconnect requests so far
  enqlog,           \* history: the pushes in order, each [q, id] (id 0: exit_event)
  handled,          \* history: the events the handler finished with, and how
  published,        \* history: the calls of janus_mqttevh_client_publish_message
  refs,             \* history: per event, json_incref minus json_decref by this file
  qreleased,        \* history: ids released by the queue's item-free function
  nconnok,          \* history: per context, connect-success callbacks run
  nfree,            \* history: per context, times its memory was released
  nops,             \* history: per context, transport requests issued
  disc_req,         \* history: contexts destroy() asked the transport to disconnect
  destroy_done,     \* history: contexts whose destroy() has returned
  uaf,              \* history: code sites that used released memory
  log               \* the line the last step logged, if it logged a failure

vars ==
  <<initialized, stopping, context_, events, handler_thread, ctxmem, ctxtopic,
    ctxaddevent, conn, pending, npub, qmem, queue, life_pc, init_ctx, sub_pc,
    sub_ev, h_pc, h_q, ninit, nsub, nreconnect, enqlog, handled,
    published, refs, qreleased, nconnok, nfree, nops, disc_req,
    destroy_done, uaf, log>>

lifeVars == <<life_pc, init_ctx, ninit>>
flagVars == <<initialized, stopping>>
ctxVars == <<ctxmem, ctxtopic, ctxaddevent, nfree>>
transportVars == <<conn, pending, npub, nconnok, nops>>
queueVars == <<qmem, queue, enqlog, qreleased>>
subVars == <<sub_pc, sub_ev, nsub>>
handlerVars == <<h_pc, h_q, handled>>
destroyHist == <<disc_req, destroy_done>>

Init ==
  /\ initialized = 0
  /\ stopping = 0
  /\ context_ = NULL
  /\ events = NULL
  /\ handler_thread = NULL
  /\ ctxmem = [g \in Gens |-> "none"]
  /\ ctxtopic = [g \in Gens |-> ""]
  /\ ctxaddevent = [g \in Gens |-> 0]
  /\ conn = [g \in Gens |-> "disconnected"]
  /\ pending = [g \in Gens |-> {}]
  /\ npub = [g \in Gens |-> 0]
  /\ qmem = [g \in Gens |-> "none"]
  /\ queue = [g \in Gens |-> <<>>]
  /\ life_pc = "idle"
  /\ init_ctx = NULL
  /\ sub_pc = "idle"
  /\ sub_ev = exit_event
  /\ h_pc = [g \in Gens |-> "none"]
  /\ h_q = [g \in Gens |-> NULL]
  /\ ninit = 0
  /\ nsub = 0
  /\ nreconnect = 0
  /\ enqlog = <<>>
  /\ handled = <<>>
  /\ published = <<>>
  /\ refs = [i \in 1..MaxSubmit |-> 0]
  /\ qreleased = {}
  /\ nconnok = [g \in Gens |-> 0]
  /\ nfree = [g \in Gens |-> 0]
  /\ nops = [g \in Gens |-> 0]
  /\ disc_req = {}
  /\ destroy_done = {}
  /\ uaf = {}
  /\ log = NoLog

(* -------------------------------------------------------- derived notions *)

\* The connection state of spec section 3, read off the transport requests
\* in flight: the code keeps no state variable of its own.
ConnState(g) ==
  CASE ctxmem[g] = "freed"          -> "Destroyed"
    [] ctxmem[g] = "none"           -> "Disconnected"
    [] "disconnect" \in pending[g]  -> "Disconnecting"
    [] "reconnect" \in pending[g]   -> "Reconnecting"
    [] "connect" \in pending[g]     -> "Connecting"
    [] conn[g] = "connected"        -> "Connected"
    [] OTHER                        -> "Disconnected"

\* a read through a context pointer: recorded when the context was released
Deref(c, site) ==
  IF c # NULL /\ ctxmem[c] = "live" THEN uaf ELSE uaf \cup {site}

\* the ids pushed on queue q, in order (0: exit_event)
RECURSIVE EnqOf(_, _)
EnqOf(q, l) ==
  IF l = <<>> THEN <<>>
  ELSE IF Head(l).q = q THEN <<Head(l).id>> \o EnqOf(q, Tail(l))
  ELSE EnqOf(q, Tail(l))

(* ------------------------------------------------------------ publishing *)

\* janus_mqttevh_client_publish_message: MQTTAsync_sendMessage returns rc
janus_mqttevh_client_publish_message(c, topic, payload, kind, id, rc) ==
  /\ published' = Append(published,
        [kind |-> kind, id |-> id, ctx |-> c, topic |-> topic,
         payload |-> payload, rc |-> rc, state |-> ConnState(c),
         after_disconnect |-> c \in disc_req])
  /\ npub' = IF rc = MQTTASYNC_SUCCESS THEN [npub EXCEPT ![c] = @ + 1] ELSE npub
  /\ nops' = [nops EXCEPT ![c] = @ + 1]

\* json_decref(message) on a host event
Decref(message, kind) ==
  IF kind = "event" THEN [refs EXCEPT ![message.id] = @ - 1] ELSE refs

\* janus_mqttevh_send_message(context, topic, message)
janus_mqttevh_send_message(c, topic, message, kind, rc) ==
  IF c = NULL
    THEN /\ refs' = Decref(message, kind)
         /\ UNCHANGED <<published, npub, nops>>
    ELSE IF json_dumps(message).null
      THEN /\ refs' = Decref(message, kind)
           /\ UNCHANGED <<published, npub, nops>>
      ELSE /\ refs' = Decref(message, kind)
           /\ janus_mqttevh_client_publish_message(
                c, topic, json_dumps(message), kind, message.id, rc)

\* what janus_mqttevh_send_message did with the event the handler gave it
SendOutcome(message, rc) ==
  IF json_dumps(message).null THEN "dump_failed"
  ELSE IF rc = MQTTASYNC_SUCCESS THEN "published"
  ELSE "publish_failed"

(* -------------------------------------------------- janus_mqttevh_incoming_event *)

\* the entry test with the stopping flag left out of it
incoming_event_check_initialized_only ==
  /\ sub_pc = "idle"
  /\ nsub < MaxSubmit
  /\ \E d \in Documents :
       LET ev == HostEvent(nsub + 1, d)
       IN  /\ nsub' = nsub + 1
           /\ IF initialized = 0
                THEN /\ refs' = Decref(ev, "event")
                     /\ UNCHANGED <<sub_pc, sub_ev>>
                ELSE /\ sub_pc' = "push"
                     /\ sub_ev' = ev
                     /\ UNCHANGED refs
  /\ log' = NoLog
  /\ UNCHANGED <<flagVars, context_, events, handler_thread, ctxVars,
                 transportVars, queueVars, lifeVars, handlerVars, nreconnect,
                 published, destroyHist, uaf>>

\* if(g_atomic_int_get(&stopping) || !g_atomic_int_get(&initialized))
\*   { json_decref(event); return; }
incoming_event_check ==
  /\ sub_pc = "idle"
  /\ nsub < MaxSubmit
  /\ \E d \in Documents :
       LET ev == HostEvent(nsub + 1, d)
       IN  /\ nsub' = nsub + 1
           /\ IF stopping # 0 \/ initialized = 0
                THEN /\ refs' = Decref(ev, "event")
                     /\ UNCHANGED <<sub_pc, sub_ev>>
                ELSE /\ sub_pc' = "push"
                     /\ sub_ev' = ev
                     /\ UNCHANGED refs
  /\ log' = NoLog
  /\ UNCHANGED <<flagVars, context_, events, handler_thread, ctxVars,
                 transportVars, queueVars, lifeVars, handlerVars, nreconnect,
                 published, destroyHist, uaf>>

\* json_incref(event); g_async_queue_push(events, event);
incoming_event_push ==
  /\ sub_pc = "push"
  /\ refs' = [refs EXCEPT ![sub_ev.id] = @ + 1]
  /\ IF events = NULL
       THEN UNCHANGED <<queue, enqlog, uaf>>
       ELSE IF qmem[events] # "live"
         THEN /\ uaf' = uaf \cup {"incoming_event"}
              /\ UNCHANGED <<queue, enqlog>>
         ELSE /\ queue' = [queue EXCEPT ![events] = Append(@, sub_ev)]
              /\ enqlog' = Append(enqlog, [q |-> events, id |-> sub_ev.id])
              /\ UNCHANGED uaf
  /\ sub_pc' = "idle"
  /\ log' = NoLog
  /\ UNCHANGED <<flagVars, context_, events, handler_thread, ctxVars,
                 transportVars, qmem, qreleased, lifeVars, handlerVars,
                 nreconnect, published, destroyHist, sub_ev, nsub>>

janus_mqttevh_incoming_event ==
  \/ incoming_event_check
  \/ incoming_event_push

(* -------------------------------------------------------- janus_mqttevh_handler *)

\* while(g_atomic_int_get(&initialized) && !g_atomic_int_get(&stopping))
\* and the evaluation of g_async_queue_pop's argument
handler_loop(g) ==
  /\ h_pc[g] = "loop"
  /\ IF initialized # 0 /\ stopping = 0
       THEN /\ h_pc' = [h_pc EXCEPT ![g] = "pop"]
            /\ h_q' = [h_q EXCEPT ![g] = events]
       ELSE /\ h_pc' = [h_pc EXCEPT ![g] = "done"]
            /\ UNCHANGED h_q
  /\ log' = NoLog
  /\ UNCHANGED <<flagVars, context_, events, handler_thread, ctxVars,
                 transportVars, queueVars, lifeVars, subVars, handled,
                 nreconnect, published, refs, destroyHist, uaf>>

\* the label and name lookup, and json_object_set_new(event, "eventtype", ...)
Annotate(event) ==
  IF event_type_to_label(event.type) # "" /\ event_type_to_name(event.type) # ""
    THEN [event EXCEPT !.eventtype = event_type_to_name(event.type)]
    ELSE event

\* the topic the handler publishes an event of this type to
EventTopic(g, type) ==
  IF ctxaddevent[g] # 0
    THEN Snprintf(ctxtopic[g], FormatLabel(event_type_to_label(type)))
    ELSE ctxtopic[g]

\* a pop that hands out the newest item
PopIndexLast(q) ==
  Len(q)

\* which item of a queue g_async_queue_pop hands out
PopIndex(q) ==
  1

\* a handler that does not recognise exit_event
IsExitNever(item) ==
  FALSE

\* if(event == &exit_event) break;
IsExit(item) ==
  item = exit_event

\* a publish step that does not look at the stopping flag
handler_publish_always(g, event) ==
  \E rc \in CallCodes :
    /\ janus_mqttevh_send_message(
         g, EventTopic(g, event.type), event, "event", rc)
    /\ handled' = Append(handled,
         [id |-> event.id, g |-> g, outcome |-> SendOutcome(event, rc)])
    /\ uaf' = Deref(g, "handler")

\* if(!g_atomic_int_get(&stopping)) { ... janus_mqttevh_send_message(...) }
handler_publish(g, event) ==
  IF stopping = 0
    THEN \E rc \in CallCodes :
           /\ janus_mqttevh_send_message(
                g, EventTopic(g, event.type), event, "event", rc)
           /\ handled' = Append(handled,
                [id |-> event.id, g |-> g, outcome |-> SendOutcome(event, rc)])
           /\ uaf' = Deref(g, "handler")
    ELSE /\ handled' = Append(handled,
                [id |-> event.id, g |-> g, outcome |-> "skipped"])
         /\ UNCHANGED <<published, npub, nops, refs, uaf>>

\* event = g_async_queue_pop(events): blocks while the queue is empty; then
\* the exit_event test, the annotation and the publish step
handler_pop(g) ==
  /\ h_pc[g] = "pop"
  /\ IF h_q[g] = NULL
       THEN /\ h_pc' = [h_pc EXCEPT ![g] = "loop"]
            /\ UNCHANGED <<queue, handled, published, npub, nops, refs, uaf>>
       ELSE IF qmem[h_q[g]] # "live"
         THEN /\ uaf' = uaf \cup {"handler_pop"}
              /\ h_pc' = [h_pc EXCEPT ![g] = "done"]
              /\ UNCHANGED <<queue, handled, published, npub, nops, refs>>
         ELSE /\ queue[h_q[g]] # <<>>
              /\ LET q == queue[h_q[g]]
                     i == PopIndex(q)
                 IN  /\ queue' = [queue EXCEPT ![h_q[g]] =
                                    SubSeq(q, 1, i - 1) \o SubSeq(q, i + 1, Len(q))]
                     /\ IF IsExit(q[i])
                          THEN /\ h_pc' = [h_pc EXCEPT ![g] = "done"]
                               /\ UNCHANGED <<handled, published, npub, nops,
                                              refs, uaf>>
                          ELSE /\ h_pc' = [h_pc EXCEPT ![g] = "loop"]
                               /\ handler_publish(g, Annotate(q[i]))
  /\ log' = NoLog
  /\ UNCHANGED <<flagVars, context_, events, handler_thread, ctxVars, conn,
                 pending, nconnok, qmem, enqlog, qreleased, lifeVars, subVars,
                 h_q, nreconnect, destroyHist>>

janus_mqttevh_handler(g) ==
  \/ handler_loop(g)
  \/ handler_pop(g)

(* ------------------------------------------------------- context teardown *)

\* a teardown that frees the context without MQTTAsync_destroy: the
\* transport keeps the client and what it has in flight
destroy_context_keeping_client(c) ==
  /\ ctxmem' = [ctxmem EXCEPT ![c] = "freed"]
  /\ nfree' = [nfree EXCEPT ![c] = @ + 1]
  /\ pending' = [pending EXCEPT ![c] = @ \ {"disconnect"}]
  /\ UNCHANGED <<npub, conn>>
  /\ uaf' = Deref(c, "destroy_context")
  /\ UNCHANGED <<ctxtopic, ctxaddevent>>

\* janus_mqttevh_client_destroy_context(&ctx): MQTTAsync_destroy drops the
\* client with whatever it had in flight, then the context is freed and the
\* caller's local pointer nulled
janus_mqttevh_client_destroy_context(c) ==
  /\ ctxmem' = [ctxmem EXCEPT ![c] = "freed"]
  /\ nfree' = [nfree EXCEPT ![c] = @ + 1]
  /\ pending' = [pending EXCEPT ![c] = {}]
  /\ npub' = [npub EXCEPT ![c] = 0]
  /\ conn' = [conn EXCEPT ![c] = "disconnected"]
  /\ uaf' = Deref(c, "destroy_context")
  /\ UNCHANGED <<ctxtopic, ctxaddevent>>

(* ------------------------------------------------------ janus_mqttevh_init *)

\* an error path that returns -1 without destroying the context
init_error_without_teardown(c) ==
  /\ UNCHANGED <<ctxmem, nfree, pending, npub, conn, uaf, ctxtopic,
                 ctxaddevent>>
  /\ life_pc' = "idle"

\* error: janus_mqttevh_client_destroy_context(&ctx); return -1;
init_error(c) ==
  /\ janus_mqttevh_client_destroy_context(c)
  /\ life_pc' = "idle"

\* from the stopping and config_path tests to MQTTAsync_setCallbacks:
\* g_malloc0 of the context, context_ = ctx, the defaults, the configuration
\* (general/enabled, general/topic, general/addevent), MQTTAsync_create
init_setup ==
  /\ life_pc = "idle"
  /\ ninit < MaxInit
  /\ \E config_path \in {"NULL", "path"} :
       IF stopping # 0 \/ config_path = "NULL"
         THEN UNCHANGED <<life_pc, init_ctx, ninit, context_, ctxVars, conn,
                          pending, npub, uaf>>
         ELSE LET c == ninit + 1
              IN  /\ ninit' = c
                  /\ init_ctx' = c
                  /\ context_' = c
                  /\ \E enabled \in BOOLEAN, topic \in BaseTopics,
                        addevent \in BOOLEAN, res \in CallCodes :
                       IF ~enabled \/ res # MQTTASYNC_SUCCESS
                         THEN /\ ctxmem' = [ctxmem EXCEPT ![c] = "freed"]
                              /\ nfree' = [nfree EXCEPT ![c] = @ + 1]
                              /\ life_pc' = "idle"
                              /\ UNCHANGED <<ctxtopic, ctxaddevent>>
                         ELSE /\ ctxmem' = [ctxmem EXCEPT ![c] = "live"]
                              /\ ctxtopic' = [ctxtopic EXCEPT ![c] = topic]
                              /\ ctxaddevent' = [ctxaddevent EXCEPT ![c] =
                                   IF addevent THEN 1 ELSE DEFAULT_ADDEVENT]
                              /\ life_pc' = "init_connect"
                              /\ UNCHANGED nfree
                  /\ UNCHANGED <<conn, pending, npub, uaf>>
  /\ log' = NoLog
  /\ UNCHANGED <<flagVars, events, handler_thread, nconnok, nops, queueVars,
                 subVars, handlerVars, nreconnect, published, refs,
                 destroyHist>>

\* janus_mqttevh_client_connect(ctx): MQTTAsync_connect returns rc
janus_mqttevh_client_connect(c, rc) ==
  /\ pending' = IF rc = MQTTASYNC_SUCCESS
                  THEN [pending EXCEPT ![c] = @ \cup {"connect"}]
                  ELSE pending
  /\ nops' = [nops EXCEPT ![c] = @ + 1]

\* int rc = janus_mqttevh_client_connect(ctx), the switch on rc, then
\* events = g_async_queue_new_full(...); g_atomic_int_set(&initialized, 1);
init_connect ==
  /\ life_pc = "init_connect"
  /\ \E rc \in {MQTTASYNC_SUCCESS} \cup SyncFailCodes :
       IF rc # MQTTASYNC_SUCCESS
         THEN /\ log' = [site |-> "init", rc |-> rc, reason |-> ConnectError(rc)]
              /\ nops' = [nops EXCEPT ![init_ctx] = @ + 1]
              /\ init_error(init_ctx)
              /\ UNCHANGED <<events, qmem, initialized>>
         ELSE /\ log' = NoLog
              /\ janus_mqttevh_client_connect(init_ctx, rc)
              /\ events' = init_ctx
              /\ qmem' = [qmem EXCEPT ![init_ctx] = "live"]
              /\ initialized' = 1
              /\ life_pc' = "init_thread"
              /\ UNCHANGED <<ctxVars, conn, npub, uaf>>
  /\ UNCHANGED <<stopping, context_, handler_thread, nconnok, queue, enqlog,
                 qreleased, init_ctx, ninit, subVars, handlerVars, nreconnect,
                 published, refs, destroyHist>>

\* handler_thread = g_thread_try_new(..., janus_mqttevh_handler, ctx, &error)
init_thread ==
  /\ life_pc = "init_thread"
  /\ \E started \in BOOLEAN :
       IF started
         THEN /\ handler_thread' = init_ctx
              /\ h_pc' = [h_pc EXCEPT ![init_ctx] = "loop"]
              /\ life_pc' = "idle"
              /\ UNCHANGED <<initialized, ctxVars, conn, pending, npub, uaf>>
         ELSE /\ handler_thread' = NULL
              /\ initialized' = 0
              /\ init_error(init_ctx)
              /\ UNCHANGED h_pc
  /\ log' = NoLog
  /\ UNCHANGED <<stopping, context_, events, nconnok, nops, queueVars,
                 init_ctx, ninit, subVars, h_q, handled, nreconnect,
                 published, refs, destroyHist>>

janus_mqttevh_init ==
  \/ init_setup
  \/ init_connect
  \/ init_thread

(* --------------------------------------------------- janus_mqttevh_destroy *)

\* if(!g_atomic_int_get(&initialized)) return; g_atomic_int_set(&stopping, 1);
destroy_entry ==
  /\ life_pc = "idle"
  /\ IF initialized = 0
       THEN UNCHANGED <<stopping, life_pc>>
       ELSE /\ stopping' = 1
            /\ life_pc' = "destroy_push"
  /\ log' = NoLog
  /\ UNCHANGED <<initialized, context_, events, handler_thread, ctxVars,
                 transportVars, queueVars, init_ctx, ninit, subVars,
                 handlerVars, nreconnect, published, refs, destroyHist, uaf>>

\* a destroy() that goes on to the join without pushing exit_event
destroy_push_nothing ==
  /\ life_pc = "destroy_push"
  /\ life_pc' = "destroy_join"
  /\ log' = NoLog
  /\ UNCHANGED <<flagVars, context_, events, handler_thread, ctxVars,
                 transportVars, queueVars, init_ctx, ninit, subVars,
                 handlerVars, nreconnect, published, refs, destroyHist, uaf>>

\* g_async_queue_push(events, &exit_event);
destroy_push ==
  /\ life_pc = "destroy_push"
  /\ IF events = NULL
       THEN UNCHANGED <<queue, enqlog, uaf>>
       ELSE IF qmem[events] # "live"
         THEN /\ uaf' = uaf \cup {"destroy_push"}
              /\ UNCHANGED <<queue, enqlog>>
         ELSE /\ queue' = [queue EXCEPT ![events] = Append(@, exit_event)]
              /\ enqlog' = Append(enqlog, [q |-> events, id |-> exit_event.id])
              /\ UNCHANGED uaf
  /\ life_pc' = "destroy_join"
  /\ log' = NoLog
  /\ UNCHANGED <<flagVars, context_, events, handler_thread, ctxVars,
                 transportVars, qmem, qreleased, init_ctx, ninit, subVars,
                 handlerVars, nreconnect, published, refs, destroyHist>>

\* janus_mqttevh_event_free over the items left in a queue: json_decref of
\* every item but exit_event
RECURSIVE FreeItems(_, _)
FreeItems(items, r) ==
  IF items = <<>> THEN r
  ELSE IF Head(items) = exit_event THEN FreeItems(Tail(items), r)
  ELSE FreeItems(Tail(items), [r EXCEPT ![Head(items).id] = @ - 1])

\* the ids of the real events among the items
ItemIds(items) ==
  {items[i].id : i \in {j \in 1..Len(items) : items[j] # exit_event}}

\* a destroy() that does not wait for the handler thread
JoinedWithoutWaiting ==
  TRUE

\* whether g_thread_join(handler_thread) can return
Joined ==
  handler_thread # NULL => h_pc[handler_thread] = "done"

\* if(handler_thread != NULL) { g_thread_join(handler_thread);
\* handler_thread = NULL; } g_async_queue_unref(events);
destroy_join ==
  /\ life_pc = "destroy_join"
  /\ Joined
  /\ handler_thread' = NULL
  /\ IF events = NULL
       THEN UNCHANGED <<qmem, queue, qreleased, refs, uaf>>
       ELSE IF qmem[events] # "live"
         THEN /\ uaf' = uaf \cup {"destroy_unref"}
              /\ UNCHANGED <<qmem, queue, qreleased, refs>>
         ELSE /\ refs' = FreeItems(queue[events], refs)
              /\ qreleased' = qreleased \cup ItemIds(queue[events])
              /\ queue' = [queue EXCEPT ![events] = <<>>]
              /\ qmem' = [qmem EXCEPT ![events] = "freed"]
              /\ UNCHANGED uaf
  /\ life_pc' = "destroy_disconnect"
  /\ log' = NoLog
  /\ UNCHANGED <<flagVars, context_, events, ctxVars, transportVars, enqlog,
                 init_ctx, ninit, subVars, handlerVars, nreconnect, published,
                 destroyHist>>

\* janus_mqttevh_client_disconnect(ctx): MQTTAsync_disconnect returns rc
janus_mqttevh_client_disconnect(c, rc) ==
  /\ pending' = IF rc = MQTTASYNC_SUCCESS
                  THEN [pending EXCEPT ![c] = @ \cup {"disconnect"}]
                  ELSE pending
  /\ nops' = [nops EXCEPT ![c] = @ + 1]

\* events = NULL; janus_mqttevh_client_disconnect(context_), its return code
\* dropped; g_atomic_int_set(&initialized, 0); g_atomic_int_set(&stopping, 0);
destroy_disconnect ==
  /\ life_pc = "destroy_disconnect"
  /\ context_ # NULL
  /\ events' = NULL
  /\ \E rc \in CallCodes :
       janus_mqttevh_client_disconnect(context_, rc)
  /\ uaf' = Deref(context_, "destroy_disconnect")
  /\ disc_req' = disc_req \cup {context_}
  /\ initialized' = 0
  /\ stopping' = 0
  /\ destroy_done' = destroy_done \cup {context_}
  /\ life_pc' = "idle"
  /\ log' = NoLog
  /\ UNCHANGED <<context_, handler_thread, ctxVars, conn, npub, nconnok,
                 queueVars, init_ctx, ninit, subVars, handlerVars, nreconnect,
                 published, refs>>

janus_mqttevh_destroy ==
  \/ destroy_entry
  \/ destroy_push
  \/ destroy_join
  \/ destroy_disconnect

(* ----------------------------------------------------- transport callbacks *)

\* the connect request of context g completes with success: the "connected"
\* status message goes to <base topic>/status
janus_mqttevh_client_connect_success(g) ==
  /\ "connect" \in pending[g]
  /\ pending' = [pending EXCEPT ![g] = @ \ {"connect"}]
  /\ conn' = [conn EXCEPT ![g] = "connected"]
  /\ nconnok' = [nconnok EXCEPT ![g] = @ + 1]
  /\ \E rc \in CallCodes :
       janus_mqttevh_send_message(
         g, Snprintf(ctxtopic[g], "status"), StatusInfo, "status", rc)
  /\ uaf' = Deref(g, "connect_success")
  /\ log' = NoLog
  /\ UNCHANGED <<flagVars, context_, events, handler_thread, ctxVars,
                 queueVars, lifeVars, subVars, handlerVars, nreconnect,
                 destroyHist>>

\* a connect-failure callback that issues the connect again
connect_failure_retry(g) ==
  /\ "connect" \in pending[g]
  /\ UNCHANGED pending
  /\ nops' = [nops EXCEPT ![g] = @ + 1]
  /\ \E rc \in CallbackCodes :
       log' = [site |-> "connect_failure", rc |-> rc, reason |-> ""]
  /\ UNCHANGED <<flagVars, context_, events, handler_thread, ctxVars, conn,
                 npub, nconnok, queueVars, lifeVars, subVars,
                 handlerVars, nreconnect, published, refs, destroyHist, uaf>>

\* the connect request of context g completes with failure: the code is logged
janus_mqttevh_client_connect_failure(g) ==
  /\ "connect" \in pending[g]
  /\ pending' = [pending EXCEPT ![g] = @ \ {"connect"}]
  /\ \E rc \in CallbackCodes :
       log' = [site |-> "connect_failure", rc |-> rc, reason |-> ""]
  /\ UNCHANGED <<flagVars, context_, events, handler_thread, ctxVars, conn,
                 npub, nconnok, nops, queueVars, lifeVars, subVars,
                 handlerVars, nreconnect, published, refs, destroyHist, uaf>>

\* the disconnect request of destroy() completes with success
janus_mqttevh_client_disconnect_success(g) ==
  /\ "disconnect" \in pending[g]
  /\ janus_mqttevh_client_destroy_context(g)
  /\ log' = NoLog
  /\ UNCHANGED <<flagVars, context_, events, handler_thread, nconnok, nops,
                 queueVars, lifeVars, subVars, handlerVars, nreconnect,
                 published, refs, destroyHist>>

\* a disconnect-failure callback that only logs
disconnect_failure_log_only(g) ==
  /\ "disconnect" \in pending[g]
  /\ pending' = [pending EXCEPT ![g] = @ \ {"disconnect"}]
  /\ log' = [site |-> "disconnect_failure", rc |-> 0, reason |-> ""]
  /\ UNCHANGED <<flagVars, context_, events, handler_thread, ctxVars, conn,
                 npub, nconnok, nops, queueVars, lifeVars, subVars,
                 handlerVars, nreconnect, published, refs, destroyHist, uaf>>

\* the disconnect request of destroy() completes with failure
janus_mqttevh_client_disconnect_failure(g) ==
  /\ "disconnect" \in pending[g]
  /\ janus_mqttevh_client_destroy_context(g)
  /\ log' = [site |-> "disconnect_failure", rc |-> 0, reason |-> ""]
  /\ UNCHANGED <<flagVars, context_, events, handler_thread, nconnok, nops,
                 queueVars, lifeVars, subVars, handlerVars, nreconnect,
                 published, refs, destroyHist>>

\* a publish of context g completes with success
janus_mqttevh_client_publish_janus_success(g) ==
  /\ npub[g] > 0
  /\ npub' = [npub EXCEPT ![g] = @ - 1]
  /\ uaf' = Deref(g, "publish_success")
  /\ log' = NoLog
  /\ UNCHANGED <<flagVars, context_, events, handler_thread, ctxVars, conn,
                 pending, nconnok, nops, queueVars, lifeVars, subVars,
                 handlerVars, nreconnect, published, refs, destroyHist>>

\* a publish-failure callback that sends the context's last message again
publish_janus_failure_resend(g) ==
  /\ npub[g] > 0
  /\ LET mine == SelectSeq(published,
                    LAMBDA e : e.ctx = g /\ e.rc = MQTTASYNC_SUCCESS)
     IN  /\ mine # <<>>
         /\ published' = Append(published, mine[Len(mine)])
  /\ nops' = [nops EXCEPT ![g] = @ + 1]
  /\ uaf' = Deref(g, "publish_failure")
  /\ log' = [site |-> "publish_failure", rc |-> 0, reason |-> ""]
  /\ UNCHANGED <<flagVars, context_, events, handler_thread, ctxVars, conn,
                 pending, npub, nconnok, queueVars, lifeVars, subVars,
                 handlerVars, nreconnect, refs, destroyHist>>

\* a publish-failure callback that treats the failure as fatal and clears
\* the initialized flag
publish_janus_failure_fatal(g) ==
  /\ npub[g] > 0
  /\ npub' = [npub EXCEPT ![g] = @ - 1]
  /\ initialized' = 0
  /\ uaf' = Deref(g, "publish_failure")
  /\ log' = [site |-> "publish_failure", rc |-> 0, reason |-> ""]
  /\ UNCHANGED <<stopping, context_, events, handler_thread, ctxVars, conn,
                 pending, nconnok, nops, queueVars, lifeVars, subVars,
                 handlerVars, nreconnect, published, refs, destroyHist>>

\* a publish of context g completes with failure: "Right now, we just drop it"
janus_mqttevh_client_publish_janus_failure(g) ==
  /\ npub[g] > 0
  /\ npub' = [npub EXCEPT ![g] = @ - 1]
  /\ uaf' = Deref(g, "publish_failure")
  /\ log' = [site |-> "publish_failure", rc |-> 0, reason |-> ""]
  /\ UNCHANGED <<flagVars, context_, events, handler_thread, ctxVars, conn,
                 pending, nconnok, nops, queueVars, lifeVars, subVars,
                 handlerVars, nreconnect, published, refs, destroyHist>>

\* the transport reports the link of context g lost: the cause is logged and
\* the transport, asked for automaticReconnect, restores the link itself
janus_mqttevh_client_connection_lost(g) ==
  /\ conn[g] = "connected"
  /\ log = NoLog
  /\ uaf' = Deref(g, "connection_lost")
  /\ log' = [site |-> "connection_lost", rc |-> 0, reason |-> ""]
  /\ UNCHANGED <<flagVars, context_, events, handler_thread, ctxVars, conn,
                 pending, npub, nconnok, nops, queueVars, lifeVars, subVars,
                 handlerVars, nreconnect, published, refs, destroyHist>>

(* -------------------------------------------------------------- reconnect *)

\* janus_mqttevh_client_reconnect(ctx): a disconnect whose callbacks are the
\* reconnect ones; requested by the operator on the one context
janus_mqttevh_client_reconnect ==
  /\ nreconnect < MaxReconnect
  /\ context_ # NULL
  /\ ctxmem[context_] = "live"
  /\ nreconnect' = nreconnect + 1
  /\ \E rc \in CallCodes :
       /\ pending' = IF rc = MQTTASYNC_SUCCESS
                       THEN [pending EXCEPT ![context_] = @ \cup {"reconnect"}]
                       ELSE pending
       /\ nops' = [nops EXCEPT ![context_] = @ + 1]
  /\ log' = NoLog
  /\ UNCHANGED <<flagVars, context_, events, handler_thread, ctxVars, conn,
                 npub, nconnok, queueVars, lifeVars, subVars, handlerVars,
                 published, refs, destroyHist, uaf>>

\* a reconnect-success callback that also publishes the "connected" status
reconnect_success_with_status(g) ==
  /\ "reconnect" \in pending[g]
  /\ conn' = [conn EXCEPT ![g] = "disconnected"]
  /\ \E rc \in {MQTTASYNC_SUCCESS} \cup SyncFailCodes :
       /\ pending' = IF rc = MQTTASYNC_SUCCESS
                       THEN [pending EXCEPT ![g] = (@ \ {"reconnect"}) \cup {"connect"}]
                       ELSE [pending EXCEPT ![g] = @ \ {"reconnect"}]
       /\ log' = IF rc # MQTTASYNC_SUCCESS
                   THEN [site |-> "reconnect_success", rc |-> rc,
                         reason |-> ConnectError(rc)]
                   ELSE NoLog
  /\ published' = Append(published,
        [kind |-> "status", id |-> StatusInfo.id, ctx |-> g,
         topic |-> Snprintf(ctxtopic[g], "status"),
         payload |-> json_dumps(StatusInfo), rc |-> MQTTASYNC_SUCCESS,
         state |-> ConnState(g), after_disconnect |-> g \in disc_req])
  /\ npub' = [npub EXCEPT ![g] = @ + 1]
  /\ nops' = [nops EXCEPT ![g] = @ + 2]
  /\ uaf' = Deref(g, "reconnect_success")
  /\ UNCHANGED <<flagVars, context_, events, handler_thread, ctxVars,
                 nconnok, queueVars, lifeVars, subVars, handlerVars,
                 nreconnect, refs, destroyHist>>

\* the reconnect's disconnect completes with success: connect again
janus_mqttevh_client_reconnect_success(g) ==
  /\ "reconnect" \in pending[g]
  /\ conn' = [conn EXCEPT ![g] = "disconnected"]
  /\ \E rc \in {MQTTASYNC_SUCCESS} \cup SyncFailCodes :
       /\ pending' = IF rc = MQTTASYNC_SUCCESS
                       THEN [pending EXCEPT ![g] = (@ \ {"reconnect"}) \cup {"connect"}]
                       ELSE [pending EXCEPT ![g] = @ \ {"reconnect"}]
       /\ nops' = [nops EXCEPT ![g] = @ + 1]
       /\ log' = IF rc # MQTTASYNC_SUCCESS
                   THEN [site |-> "reconnect_success", rc |-> rc,
                         reason |-> ConnectError(rc)]
                   ELSE NoLog
  /\ uaf' = Deref(g, "reconnect_success")
  /\ UNCHANGED <<flagVars, context_, events, handler_thread, ctxVars, npub,
                 nconnok, queueVars, lifeVars, subVars, handlerVars,
                 nreconnect, published, refs, destroyHist>>

\* the reconnect's disconnect completes with failure: the code is logged
janus_mqttevh_client_reconnect_failure(g) ==
  /\ "reconnect" \in pending[g]
  /\ pending' = [pending EXCEPT ![g] = @ \ {"reconnect"}]
  /\ log' = [site |-> "reconnect_failure", rc |-> 0, reason |-> ""]
  /\ UNCHANGED <<flagVars, context_, events, handler_thread, ctxVars, conn,
                 npub, nconnok, nops, queueVars, lifeVars, subVars,
                 handlerVars, nreconnect, published, refs, destroyHist, uaf>>

(* ---------------------------------------------------------- specifications *)

Callbacks ==
  \E g \in Gens :
    \/ janus_mqttevh_client_connect_success(g)
    \/ janus_mqttevh_client_connect_failure(g)
    \/ janus_mqttevh_client_disconnect_success(g)
    \/ janus_mqttevh_client_disconnect_failure(g)
    \/ janus_mqttevh_client_publish_janus_success(g)
    \/ janus_mqttevh_client_publish_janus_failure(g)
    \/ janus_mqttevh_client_connection_lost(g)

Handler == \E g \in Gens : janus_mqttevh_handler(g)

\* the host loads an event handler once and unloads it before it loads it
\* again: it calls init() only on a handler that is not initialized
host_init ==
  \/ (initialized = 0 /\ ninit < MaxLoad /\ init_setup)
  \/ init_connect
  \/ init_thread

\* the program as the host drives it: init, events, destroy
Next ==
  \/ host_init
  \/ janus_mqttevh_destroy
  \/ janus_mqttevh_incoming_event
  \/ Handler
  \/ Callbacks

Spec == Init /\ [][Next]_vars

ReconnectCallbacks ==
  \E g \in Gens :
    \/ janus_mqttevh_client_reconnect_success(g)
    \/ janus_mqttevh_client_reconnect_failure(g)

\* the connection manager with explicit reconnect requests as well, the
\* host submitting no events
NextReconnect ==
  \/ host_init
  \/ janus_mqttevh_destroy
  \/ Handler
  \/ Callbacks
  \/ janus_mqttevh_client_reconnect
  \/ ReconnectCallbacks

SpecReconnect == Init /\ [][NextReconnect]_vars

\* a host that calls init() and destroy() in any order, init() on an
\* initialized handler included, and submits no events
NextReinit ==
  \/ janus_mqttevh_init
  \/ janus_mqttevh_destroy
  \/ Handler
  \/ Callbacks

SpecReinit == Init /\ [][NextReinit]_vars

\* the transport delivers the callback of every request it accepted, the
\* handler thread and the threads of the host keep running
Fairness ==
  /\ \A g \in Gens :
       /\ WF_vars(janus_mqttevh_client_connect_success(g)
                    \/ janus_mqttevh_client_connect_failure(g))
       /\ WF_vars(janus_mqttevh_client_disconnect_success(g)
                    \/ janus_mqttevh_client_disconnect_failure(g))
       /\ WF_vars(janus_mqttevh_client_publish_janus_success(g)
                    \/ janus_mqttevh_client_publish_janus_failure(g))
       /\ WF_vars(janus_mqttevh_handler(g))
  /\ WF_vars(incoming_event_push)
  /\ WF_vars(init_connect \/ init_thread)
  /\ WF_vars(destroy_push \/ destroy_join \/ destroy_disconnect)

SpecLive == Spec /\ Fairness

(* -------------------------------------------------------------- properties *)

\* positions of the handler's publish calls in the publish history
EventEntries ==
  {i \in 1..Len(published) : published[i].kind = "event"}

\* positions of the status publish calls of context g
StatusEntries(g) ==
  {i \in 1..Len(published) :
     published[i].kind = "status" /\ published[i].ctx = g}

\* positions at which event id was pushed
EnqPositions(id) ==
  {i \in 1..Len(enqlog) : enqlog[i].id = id}

\* the ids of the events handler thread g dequeued, in order
HandledIds(g) ==
  LET mine == SelectSeq(handled, LAMBDA h : h.g = g)
  IN  [i \in 1..Len(mine) |-> mine[i].id]

\* the ids pushed before the first exit_event
BeforeSentinel(ids) ==
  LET s == {i \in 1..Len(ids) : ids[i] = exit_event.id}
  IN  IF s = {} THEN ids
      ELSE SubSeq(ids, 1, (CHOOSE i \in s : \A j \in s : i <= j) - 1)

HasSentinel(g) ==
  \E i \in 1..Len(enqlog) : enqlog[i].q = g /\ enqlog[i].id = exit_event.id

\* C1: FIFO. If event A was pushed on the queue before event B and the
\* handler called publish for both, the publish call for A precedes the one
\* for B.
C1_PublishInEnqueueOrder ==
  \A i, j \in EventEntries :
    (i < j /\ published[i].ctx = published[j].ctx) =>
      /\ EnqPositions(published[i].id) # {}
      /\ EnqPositions(published[j].id) # {}
      /\ \A a \in EnqPositions(published[i].id),
            b \in EnqPositions(published[j].id) : a < b

\* two different events went through the handler to publish
C1_TwoEventsPublished ==
  \E i, j \in EventEntries :
    /\ i < j
    /\ published[i].id # published[j].id
    /\ published[i].ctx = published[j].ctx

\* C2: at most once. An accepted event is pushed once, dequeued at most once
\* and handed to publish at most once, whatever the publish returned and
\* whichever publish callback ran; every event the handler sent while not
\* stopping and that could be dumped has its own publish call, identical
\* documents included.
C2_AtMostOnePublishPerSubmission ==
  /\ \A i, j \in EventEntries : published[i].id = published[j].id => i = j
  /\ \A i, j \in 1..Len(enqlog) :
       (enqlog[i].id # exit_event.id /\ enqlog[i].id = enqlog[j].id) => i = j
  /\ \A i, j \in 1..Len(handled) : handled[i].id = handled[j].id => i = j
  /\ \A i \in 1..Len(handled) :
       handled[i].outcome \in {"published", "publish_failed"}
         <=> \E k \in EventEntries : published[k].id = handled[i].id
  /\ \A k \in EventEntries :
       \E i \in 1..Len(handled) : handled[i].id = published[k].id

\* two submissions of the same document were published as two calls, one of
\* which the transport refused, and the handler has moved on
C2_IdenticalDocumentsPublishedTwice ==
  \E i, j \in EventEntries :
    /\ i < j
    /\ published[i].payload = published[j].payload
    /\ published[i].topic = published[j].topic
    /\ published[i].id # published[j].id
    /\ published[i].rc # MQTTASYNC_SUCCESS

\* C3: shutdown drains the queue. Once the exit_event is pushed and the
\* handler thread has left its loop, the handler has dequeued exactly the
\* events pushed before the exit_event, in order.
C3_ShutdownDrainsQueue ==
  \A g \in Gens :
    (h_pc[g] = "done" /\ HasSentinel(g)) =>
      HandledIds(g) = BeforeSentinel(EnqOf(g, enqlog))

\* C4: an incoming_event() call that starts while stopping is set or
\* initialized is clear releases the event and returns: nothing is pushed,
\* nothing is dequeued or handled, and the call is over.
C4_SubmitDiscardedWhenNotRunning ==
  [][(nsub' = nsub + 1 /\ (stopping # 0 \/ initialized = 0)) =>
       /\ queue' = queue
       /\ enqlog' = enqlog
       /\ handled' = handled
       /\ published' = published
       /\ sub_pc' = "idle"
       /\ refs'[nsub'] = refs[nsub'] - 1]_vars

\* the last incoming_event() call was discarded after destroy() had set
\* stopping, with an earlier event accepted
C4_DiscardedDuringShutdown ==
  /\ stopping = 1
  /\ nsub = 2
  /\ sub_pc = "idle"
  /\ refs[nsub] = -1
  /\ EnqPositions(1) # {}
  /\ EnqPositions(nsub) = {}

\* C5: destroy() sets stopping, then pushes the exit_event, then joins the
\* handler thread, and only then asks for the disconnect; no publish call of
\* the handler is made once the disconnect was asked for.
C5_DestroyOrder ==
  /\ life_pc \in {"destroy_push", "destroy_join", "destroy_disconnect"}
       => stopping = 1
  /\ life_pc \in {"destroy_join", "destroy_disconnect"}
       => (events # NULL /\ HasSentinel(events))
  /\ life_pc = "destroy_disconnect"
       => (handler_thread = NULL /\ context_ # NULL /\ h_pc[context_] = "done")
  /\ \A g \in disc_req : h_pc[g] = "done" /\ HasSentinel(g)
  /\ \A i \in EventEntries : ~published[i].after_disconnect

\* destroy() asked for the disconnect of a context the handler had
\* published an event for
C5_DisconnectAfterPublishing ==
  \E g \in disc_req : \E i \in EventEntries : published[i].ctx = g

\* C6: the disconnect-success and the disconnect-failure callback each
\* release the context, a context is released at most once, a released
\* context is Destroyed with nothing in flight, and no connect, publish or
\* disconnect is issued on it any more.
C6_DisconnectCallbacksDestroy ==
  [][\A g \in Gens :
       /\ nfree'[g] <= 1
       /\ ("disconnect" \in pending[g] /\ "disconnect" \notin pending'[g])
            => (ctxmem'[g] = "freed" /\ nfree'[g] = nfree[g] + 1)
       /\ ctxmem'[g] = "freed"
            => (ConnState(g)' = "Destroyed" /\ pending'[g] = {} /\ npub'[g] = 0)
       /\ ctxmem[g] = "freed"
            => (nops'[g] = nops[g] /\ ctxmem'[g] = "freed")]_vars

\* the disconnect-failure callback of a shutdown has released the context
C6_DestroyedByDisconnectFailure ==
  \E g \in disc_req :
    /\ log.site = "disconnect_failure"
    /\ ctxmem[g] = "freed"
    /\ nfree[g] = 1

\* C7: after destroy() on an initialized relay the context is eventually
\* released, whatever the transport answered to the disconnect request.
C7_DestroyReachesDestroyed ==
  \A g \in Gens : [](g \in destroy_done => <>(ctxmem[g] = "freed"))

\* C8: the reconnect flow. A reconnect request the transport accepts takes a
\* Connected context to Reconnecting; the reconnect-success callback, when
\* its connect is accepted, takes it to Connecting and publishes nothing
\* (only a failed reconnect leads from Reconnecting straight to Connected);
\* the connect-success callback takes it to Connected and publishes exactly
\* one "connected" status message.
C8_ReconnectFlow ==
  [][\A g \in Gens :
       /\ (ConnState(g) = "Connected" /\ "reconnect" \in pending'[g])
            => ConnState(g)' = "Reconnecting"
       /\ (ConnState(g) = "Reconnecting" /\ "reconnect" \notin pending'[g]
             /\ "connect" \in pending'[g])
            => (ConnState(g)' = "Connecting" /\ published' = published)
       /\ (ConnState(g) = "Reconnecting" /\ ConnState(g)' = "Connected")
            => log'.site = "reconnect_failure"
       /\ (ConnState(g) = "Connecting" /\ nconnok'[g] = nconnok[g] + 1)
            => /\ ConnState(g)' = "Connected"
               /\ Len(published') = Len(published) + 1
               /\ StatusEntries(g)' = StatusEntries(g) \cup {Len(published')}
               /\ published'[Len(published')].payload.event = "connected"]_vars

\* a context went Connected, Reconnecting, Connecting and is Connected
\* again, with one status message per connect success
C8_ReconnectedAndConnected ==
  \E g \in Gens :
    /\ nreconnect = 1
    /\ nconnok[g] = 2
    /\ ConnState(g) = "Connected"
    /\ Cardinality(StatusEntries(g)) = 2

\* C9: every run of the connect-success callback hands publish exactly one
\* status message, with event "connected" and the package id as
\* eventhandler, on the topic <base topic>/status.
C9_StatusOnEachConnect ==
  \A g \in Gens :
    /\ Cardinality(StatusEntries(g)) = nconnok[g]
    /\ \A i \in StatusEntries(g) :
         /\ published[i].topic = ctxtopic[g] \o "/status"
         /\ published[i].payload.event = "connected"
         /\ published[i].payload.eventhandler = JANUS_MQTTEVH_PACKAGE

\* the reason each connect failure code stands for
DecodedReason(rc) ==
  CASE rc = 1 -> "protocol version"
    [] rc = 2 -> "identifier rejected"
    [] rc = 3 -> "server unavailable"
    [] rc = 4 -> "bad credentials"
    [] rc = 5 -> "not authorized"
    [] OTHER  -> "unknown error"

\* a logged reason with the "Connection refused - " in front of it removed
LoggedReason(reason) ==
  IF Len(reason) > 21 THEN SubSeq(reason, 22, Len(reason)) ELSE reason

\* C10: a connect failure is logged with the reason its code decodes to,
\* when the connect call returns the code and when the connect-failure
\* callback receives it.
C10_ConnectFailureDecoded ==
  log.site \in {"init", "reconnect_success", "connect_failure"} =>
    \/ LoggedReason(log.reason) = DecodedReason(log.rc)
    \/ (log.rc = 5 /\ log.reason = ConnectError(5))

\* C11: an event whose type has a label L is published on
\* <base topic>/L when ctx->addevent is set and on the base topic itself
\* when it is clear.
C11_TopicDerivation ==
  \A i \in EventEntries :
    LET label == event_type_to_label(published[i].payload.type)
        g == published[i].ctx
    IN  label # "" =>
          published[i].topic =
            IF ctxaddevent[g] # 0 THEN ctxtopic[g] \o "/" \o label
            ELSE ctxtopic[g]

\* C12: an event whose type has no label is published on the base topic
\* itself, also when ctx->addevent is set.
C12_UnknownTypeOnBaseTopic ==
  \A i \in EventEntries :
    event_type_to_label(published[i].payload.type) = ""
      => published[i].topic = ctxtopic[published[i].ctx]

\* C13: a context never has more than one connect, reconnect or disconnect
\* request in flight.
C13_OneRequestInFlight ==
  \A g \in Gens : Cardinality(pending[g]) <= 1

\* the code sites that read through the context pointer they are handed:
\* the transport callbacks and the publish step of the handler thread
ContextReaders ==
  {"connect_success", "reconnect_success", "publish_success",
   "publish_failure", "connection_lost", "destroy_context", "handler"}

C15_OwnerNulledOnRelease ==
  \A g \in Gens : ctxmem[g] = "freed" => context_ # g

\* C16: at most one context is allocated and not released, and at most one
\* handler thread is running, whatever the order of init() and destroy().
C16_OneContextOneThread ==
  /\ Cardinality({g \in Gens : ctxmem[g] = "live"}) <= 1
  /\ Cardinality({g \in Gens : h_pc[g] \in {"loop", "pop"}}) <= 1

\* a step in which init() returns -1 after it allocated a context: from the
\* configuration or client setup, from the connect call, or because the
\* handler thread could not be started
InitFailed ==
  /\ life_pc' = "idle"
  /\ \/ life_pc = "idle" /\ ninit' = ninit + 1
     \/ life_pc = "init_connect"
     \/ life_pc = "init_thread" /\ handler_thread' = NULL

\* C17: when init() returns failure, initialized is 0, no handler thread
\* runs, the context it allocated is released and the transport has no
\* request of that context in flight.
C17_InitFailureLeavesNothing ==
  [][InitFailed =>
       /\ initialized' = 0
       /\ \A g \in Gens : h_pc'[g] \notin {"loop", "pop"}
       /\ ctxmem'[init_ctx'] = "freed"
       /\ nfree'[init_ctx'] = 1
       /\ pending'[init_ctx'] = {}
       /\ npub'[init_ctx'] = 0]_vars

\* init() failed to start the handler thread after its connect request was
\* accepted and the queue created: the context is released again
C17_ThreadStartFailed ==
  /\ life_pc = "idle"
  /\ initialized = 0
  /\ \E g \in Gens :
       /\ ctxmem[g] = "freed"
       /\ qmem[g] = "live"
       /\ h_pc[g] = "none"
       /\ nops[g] >= 1
       /\ g \notin disc_req

\* C18: once destroy() has set stopping and pushed exit_event, the handler
\* thread leaves its loop and g_thread_join returns, whatever is queued,
\* whatever the event thread submits meanwhile and whatever publish returns.
C18_ShutdownTerminates ==
  [](life_pc = "destroy_join" =>
       <>(life_pc = "destroy_disconnect" /\ handler_thread = NULL
          /\ \A g \in Gens : h_pc[g] \notin {"loop", "pop"}))

\* the join returned with an event handled by the thread and another one
\* still in the queue when it was torn down
C18_JoinedWithEventsQueued ==
  /\ life_pc = "destroy_disconnect"
  /\ Len(handled) >= 1
  /\ qreleased # {}

\* C19: exit_event is only compared by identity. It is never handed to the
\* annotation and publish steps of the handler, never published, never
\* counted among the events the queue teardown releases, and the item
\* queued for it is exit_event itself, unchanged.
C19_SentinelOnlyCompared ==
  /\ \A i \in 1..Len(handled) : handled[i].id # exit_event.id
  /\ \A i \in EventEntries :
       /\ published[i].id # exit_event.id
       /\ published[i].payload.event # exit_event.event
  /\ exit_event.id \notin qreleased
  /\ \A g \in Gens : \A i \in 1..Len(queue[g]) :
       queue[g][i].id = exit_event.id => queue[g][i] = exit_event

\* the handler thread handled an event, then took exit_event off the queue
\* and left its loop
C19_SentinelDequeued ==
  /\ life_pc = "destroy_join"
  /\ events # NULL
  /\ HasSentinel(events)
  /\ queue[events] = <<>>
  /\ h_pc[events] = "done"
  /\ Len(handled) >= 1

\* C20: every event the handler thread dequeued has been released exactly
\* once by the time the thread goes back to its loop: the reference taken
\* when it was pushed is given back, on every path.
C20_DequeuedEventReleasedOnce ==
  \A i \in 1..Len(handled) : refs[handled[i].id] = 0

\* the handler thread finished with one more event in this step
HandlerStep ==
  Len(handled') = Len(handled) + 1

\* C21: an event the handler thread brings to the publish step while
\* stopping is set is not published: no publish call is made for it, now or
\* later, and it is not pushed on a queue again.
C21_SkippedWhenStopping ==
  [][/\ (HandlerStep /\ stopping # 0) =>
          LET h == handled'[Len(handled')]
          IN  /\ h.outcome = "skipped"
              /\ published' = published
              /\ npub' = npub
              /\ nops' = nops
              /\ enqlog' = enqlog
              /\ \A g \in Gens : \A i \in 1..Len(queue'[g]) :
                   queue'[g][i].id # h.id
     /\ \A i \in 1..Len(handled') :
          handled'[i].outcome = "skipped" =>
            /\ \A k \in 1..Len(published') :
                 published'[k].kind = "event"
                   => published'[k].id # handled'[i].id
            /\ \A g \in Gens : \A k \in 1..Len(queue'[g]) :
                 queue'[g][k].id # handled'[i].id]_vars

\* the handler thread dequeued an event while destroy() had set stopping,
\* after it had published an earlier one
C21_EventSkipped ==
  \E i, j \in 1..Len(handled) :
    /\ i < j
    /\ handled[i].outcome = "published"
    /\ handled[j].outcome = "skipped"

\* C22: a publish that returns non-success, a publish-failure callback and a
\* json_dumps failure do not stop the pipeline: the handler thread goes back
\* to its loop with the flags as they were, and an event it dequeues
\* afterwards while not stopping is sent like any other.
C22_FailureNotFatal ==
  [][/\ (HandlerStep /\ handled'[Len(handled')].outcome
                          \in {"publish_failed", "dump_failed"}) =>
          /\ h_pc'[handled'[Len(handled')].g] = "loop"
          /\ initialized' = initialized
          /\ stopping' = stopping
     /\ log'.site = "publish_failure" =>
          /\ h_pc' = h_pc
          /\ initialized' = initialized
          /\ stopping' = stopping
          /\ queue' = queue
     /\ (HandlerStep /\ stopping = 0) =>
          /\ handled'[Len(handled')].outcome # "skipped"
          /\ \/ handled'[Len(handled')].outcome = "dump_failed"
             \/ /\ Len(published') = Len(published) + 1
                /\ published'[Len(published')].id = handled'[Len(handled')].id
    ]_vars

\* after an event whose publish returned non-success, or that could not be
\* dumped, the handler thread published a later one
C22_PublishedAfterFailure ==
  \E i, j \in 1..Len(handled) :
    /\ i < j
    /\ handled[i].outcome \in {"publish_failed", "dump_failed"}
    /\ handled[j].outcome = "published"

\* a step of the connection-lost, connect-failure, publish-success or
\* publish-failure callback
ObservationalCallbackStep ==
  \/ log'.site \in {"connection_lost", "connect_failure", "publish_failure"}
  \/ /\ log' = NoLog
     /\ \E g \in Gens : npub'[g] = npub[g] - 1 /\ ctxmem'[g] = ctxmem[g]

\* C23: the connection-lost, connect-failure, publish-success and
\* publish-failure callbacks only observe: they leave the context, the
\* queue and the flags as they are and issue no connect, disconnect or
\* publish.
C23_CallbacksOnlyObserve ==
  [][ObservationalCallbackStep =>
       /\ UNCHANGED <<ctxmem, ctxtopic, ctxaddevent, nfree, context_>>
       /\ UNCHANGED <<events, qmem, queue, enqlog, qreleased>>
       /\ UNCHANGED <<initialized, stopping, handler_thread, h_pc>>
       /\ UNCHANGED <<nops, published, nreconnect, disc_req>>
       /\ \A g \in Gens : pending'[g] \subseteq pending[g]]_vars

\* the connect-failure callback ran on an initialized handler with an event
\* waiting in the queue
C23_ConnectFailureObserved ==
  /\ log.site = "connect_failure"
  /\ initialized = 1
  /\ events # NULL
  /\ queue[events] # <<>>

\* C24: every publish call the handler thread makes is made while the
\* connection of its context is Connected, never while it is Connecting,
\* Reconnecting, Disconnecting or Disconnected.
C24_PublishOnlyWhileConnected ==
  \A i \in EventEntries : published[i].state = "Connected"

\* C25: incoming_event() never pushes an event on the queue after destroy()
\* has released the queue.
C25_NoPushAfterQueueRelease ==
  "incoming_event" \notin uaf

\* C26: the handler never gives back a reference to an event that it did
\* not take: for every submitted event the releases by this file never
\* exceed its json_incref, on the accepted and on the discarded path alike.
C26_NoReleaseWithoutReference ==
  \A id \in 1..MaxSubmit : refs[id] >= 0

====
